---- MODULE Spec2Model ----
(***************************************************************************)
(* Model of doc2md.py: the docstring -> Markdown transform.                *)
(*                                                                         *)
(* A Python str is a sequence of one-character strings; a list of str is a *)
(* sequence of such sequences.  None is the one-element sequence None,     *)
(* whose element is no character of any alphabet used here.                *)
(***************************************************************************)
EXTENDS Integers, Sequences, FiniteSets, TLC

VARIABLES pc, docstring, title, text, again, lines, sections, level, toc,
          md, idx, is_code, code, language, bound, raised, result

vars == <<pc, docstring, title, text, again, lines, sections, level, toc,
          md, idx, is_code, code, language, bound, raised, result>>

(***************************************************************************)
(* Bounds of the explored inputs.                                          *)
(***************************************************************************)
MaxLen == 5
MaxLines == 4
MaxTocLines == 3
MaxBlock == 2

(***************************************************************************)
(* Python built-ins used by the source.                                    *)
(***************************************************************************)
None == <<"None">>

\* sys.maxsize: larger than the length of any line.
maxsize == 2147483647

\* str.expandtabs(): the default tab size.
tabsize == 8

Whitespace == {" ", "\t", "\n", "\r"}
LineBreaks == {"\n", "\r"}

Min(a, b) == IF a < b THEN a ELSE b
Max(a, b) == IF a > b THEN a ELSE b

\* n copies of the character c
Rep(c, n) == [i \in 1..n |-> c]

\* s[n:] of Python, n >= 0
From(s, n) == IF n >= Len(s) THEN <<>> ELSE SubSeq(s, n + 1, Len(s))

\* s[:n] of Python, n >= 0
Upto(s, n) == IF n >= Len(s) THEN s ELSE SubSeq(s, 1, n)

\* str.startswith(p)
startswith(s, p) == Len(s) >= Len(p) /\ SubSeq(s, 1, Len(p)) = p

\* str.lstrip(): the number of leading whitespace characters is removed
LeadingWs(s) ==
    IF \A i \in 1..Len(s) : s[i] \in Whitespace
    THEN Len(s)
    ELSE (CHOOSE i \in 1..Len(s) :
              /\ s[i] \notin Whitespace
              /\ \A j \in 1..(i - 1) : s[j] \in Whitespace) - 1

lstrip(s) == From(s, LeadingWs(s))

\* str.rstrip()
rstrip(s) ==
    IF \A i \in 1..Len(s) : s[i] \in Whitespace
    THEN <<>>
    ELSE Upto(s, CHOOSE i \in 1..Len(s) :
                     /\ s[i] \notin Whitespace
                     /\ \A j \in (i + 1)..Len(s) : s[j] \in Whitespace)

\* str.strip()
strip(s) == lstrip(rstrip(s))

\* str.expandtabs(): a tab becomes the spaces up to the next multiple of
\* tabsize; the column restarts after a line break.
RECURSIVE ExpandFrom(_, _, _)
ExpandFrom(s, i, col) ==
    IF i > Len(s) THEN <<>>
    ELSE IF s[i] = "\t"
         THEN LET incr == tabsize - (col % tabsize)
              IN  Rep(" ", incr) \o ExpandFrom(s, i + 1, col + incr)
         ELSE <<s[i]>> \o
              ExpandFrom(s, i + 1, IF s[i] \in LineBreaks THEN 0 ELSE col + 1)

expandtabs(s) == ExpandFrom(s, 1, 0)

\* str.splitlines(): lines without their line breaks; "\r\n" is one break;
\* no empty last line after a final break; [] for the empty string.
RECURSIVE splitlines(_)
splitlines(s) ==
    IF s = <<>> THEN <<>>
    ELSE LET brk == {i \in 1..Len(s) : s[i] \in LineBreaks}
             eol == IF brk = {} THEN Len(s) + 1
                    ELSE CHOOSE i \in brk : \A j \in brk : i <= j
             nxt == IF eol > Len(s) THEN eol
                    ELSE IF s[eol] = "\r" /\ eol < Len(s) /\ s[eol + 1] = "\n"
                         THEN eol + 2
                         ELSE eol + 1
         IN  <<Upto(s, eol - 1)>> \o splitlines(From(s, nxt - 1))

\* A slip of split: the text is cut as str.splitlines() cuts it, into no
\* piece at all when it is empty.
split_as_splitlines(s) == splitlines(s)

\* str.split('\n'): always at least one piece.
RECURSIVE split(_)
split(s) ==
    LET brk == {i \in 1..Len(s) : s[i] = "\n"}
    IN  IF brk = {} THEN <<s>>
        ELSE LET eol == CHOOSE i \in brk : \A j \in brk : i <= j
             IN  <<Upto(s, eol - 1)>> \o split(From(s, eol))

\* '\n'.join(ls)
RECURSIVE join(_)
join(ls) ==
    IF ls = <<>> THEN <<>>
    ELSE IF Len(ls) = 1 THEN ls[1]
    ELSE ls[1] \o <<"\n">> \o join(Tail(ls))

(***************************************************************************)
(* doctrim                                                                 *)
(***************************************************************************)
\* The minimum indentation over the non-blank lines of ls (maxsize if none).
RECURSIVE min_indent(_)
min_indent(ls) ==
    IF ls = <<>> THEN maxsize
    ELSE LET stripped == lstrip(ls[1])
             rest == min_indent(Tail(ls))
         IN  IF stripped /= <<>>
             THEN Min(rest, Len(ls[1]) - Len(stripped))
             ELSE rest

\* A slip of pop_trailing: the trailing blank lines are kept.
pop_trailing_kept(trimmed) == trimmed

\* A slip of pop_leading: the leading blank lines are kept.
pop_leading_kept(trimmed) == trimmed

\* The loop "while trimmed and not trimmed[-1]: trimmed.pop()"
RECURSIVE pop_trailing(_)
pop_trailing(trimmed) ==
    IF trimmed /= <<>> /\ trimmed[Len(trimmed)] = <<>>
    THEN pop_trailing(Upto(trimmed, Len(trimmed) - 1))
    ELSE trimmed

\* The loop "while trimmed and not trimmed[0]: trimmed.pop(0)"
RECURSIVE pop_leading(_)
pop_leading(trimmed) ==
    IF trimmed /= <<>> /\ trimmed[1] = <<>>
    THEN pop_leading(Tail(trimmed))
    ELSE trimmed

\* The lines after the first, with the indentation removed.
remove_indent(rest, indent) ==
    IF indent < maxsize
    THEN [i \in 1..Len(rest) |-> rstrip(From(rest[i], indent))]
    ELSE <<>>

doctrim(docstr) ==
    IF docstr = None \/ docstr = <<>> THEN <<>>
    ELSE LET ls == splitlines(expandtabs(docstr))
             indent == min_indent(Tail(ls))
             trimmed == <<strip(ls[1])>> \o remove_indent(Tail(ls), indent)
         IN  join(pop_leading(pop_trailing(trimmed)))

(***************************************************************************)
(* unindent, code_block, doctest2md, doc_code_block                        *)
(***************************************************************************)
python == <<"p", "y", "t", "h", "o", "n">>
bash == <<"b", "a", "s", "h">>
\* The grave accent U+0060, which a TLA+ string cannot hold, is the one
\* element "tick"; no other character of the model equals it.
backtick == "tick"
fence == <<backtick, backtick, backtick>>
py_prompt == <<">", ">", ">", " ">>
py_more == <<".", ".", ".", " ">>
py_prompt_bare == <<">", ">", ">">>
py_more_bare == <<".", ".", ".">>
sh_prompt == <<"$", " ">>

\* A slip of unindent: as in doctrim, the first line does not count for the
\* common indentation.
unindent_first_skipped(ls) ==
    LET indent == min_indent(Tail(ls))
    IN  IF indent < maxsize
        THEN [i \in 1..Len(ls) |-> From(ls[i], indent)]
        ELSE <<>>

unindent(ls) ==
    LET indent == min_indent(ls)
    IN  IF indent < maxsize
        THEN [i \in 1..Len(ls) |-> From(ls[i], indent)]
        ELSE <<>>

\* A slip of code_block: the language tag is left out.
code_block_untagged(ls, lang) == <<fence>> \o ls \o <<fence>>

\* A slip of code_block: an empty line follows the closing fence.
code_block_padded(ls, lang) == <<fence \o lang>> \o ls \o <<fence, <<>>>>

code_block(ls, lang) == <<fence \o lang>> \o ls \o <<fence>>

\* The test of line 114, negated: the line is a prompt line.
is_prompt_line(line) ==
    \/ startswith(line, py_prompt)
    \/ startswith(line, py_more)
    \/ line \in {py_prompt_bare, py_more_bare}

\* A slip of doctest2md: the prompt is stripped line by line, from the prompt
\* lines only, whatever the other lines are.
doctest2md_partial(ls) ==
    LET un == unindent(ls)
    IN  [i \in 1..Len(un) |->
            IF is_prompt_line(un[i]) THEN From(un[i], 4) ELSE un[i]]

doctest2md(ls) ==
    LET un == unindent(ls)
        is_only_code == \A i \in 1..Len(un) : is_prompt_line(un[i])
    IN  IF is_only_code
        THEN [i \in 1..Len(un) |-> From(un[i], 4)]
        ELSE un

doc_code_block(ls, lang) ==
    IF lang = python
    THEN code_block(doctest2md(ls), lang)
    ELSE code_block(ls, lang)

(***************************************************************************)
(* find_sections, make_toc                                                 *)
(***************************************************************************)
UpperCase == <<"A", "B", "C", "D", "E", "F", "G", "H", "I", "J", "K", "L", "M",
               "N", "O", "P", "Q", "R", "S", "T", "U", "V", "W", "X", "Y", "Z">>
LowerCase == <<"a", "b", "c", "d", "e", "f", "g", "h", "i", "j", "k", "l", "m",
               "n", "o", "p", "q", "r", "s", "t", "u", "v", "w", "x", "y", "z">>

\* str.lower()
lower(s) ==
    [i \in 1..Len(s) |->
        IF \E k \in 1..Len(UpperCase) : UpperCase[k] = s[i]
        THEN LowerCase[CHOOSE k \in 1..Len(UpperCase) : UpperCase[k] = s[i]]
        ELSE s[i]]

\* str.replace(old, new) for a one-character old
RECURSIVE replace(_, _, _)
replace(s, old, new) ==
    IF s = <<>> THEN <<>>
    ELSE (IF s[1] = old THEN new ELSE <<s[1]>>) \o replace(Tail(s), old, new)

\* str.partition(' '): <<before, separator, after>>
partition(s) ==
    LET sp == {i \in 1..Len(s) : s[i] = " "}
    IN  IF sp = {} THEN <<s, <<>>, <<>>>>
        ELSE LET p == CHOOSE i \in sp : \A j \in sp : i <= j
             IN  <<Upto(s, p - 1), <<" ">>, From(s, p)>>

\* A slip of reg_section: the space after the marks is not asked for ('^#+').
reg_section_no_space(line) == Len(line) >= 1 /\ line[1] = "#"

\* re.compile('^#+ ').match(line)
reg_section(line) ==
    \E n \in 1..Len(line) :
        /\ \A i \in 1..n : line[i] = "#"
        /\ n < Len(line)
        /\ line[n + 1] = " "

RECURSIVE find_sections(_)
find_sections(ls) ==
    IF ls = <<>> THEN <<>>
    ELSE LET part == partition(ls[1])
         IN  (IF reg_section(ls[1]) THEN <<<<Len(part[1]), part[3]>>>> ELSE <<>>)
             \o find_sections(Tail(ls))

\* min(n for n,t in sections), sections not empty
min_depth(secs) ==
    CHOOSE n \in {secs[i][1] : i \in 1..Len(secs)} :
        \A i \in 1..Len(secs) : n <= secs[i][1]

\* One line of the table of contents (lines 151-154).
toc_ref(ind, sec, outer) ==
    LET ref == replace(replace(lower(sec), " ", <<"-">>), "?", <<>>)
    IN  Rep(" ", 4 * (ind - outer)) \o <<"-", " ", "[">> \o sec
        \o <<"]", "(", "#">> \o ref \o <<")">>

make_toc(secs) ==
    IF secs = <<>> THEN <<>>
    ELSE LET outer == min_depth(secs)
         IN  [i \in 1..Len(secs) |-> toc_ref(secs[i][1], secs[i][2], outer)]

(***************************************************************************)
(* The inputs explored.                                                    *)
(***************************************************************************)
\* The sequences over S of length at most n
SeqsUpTo(S, n) == UNION {[1..k -> S] : k \in 0..n}

\* Characters of the docstrings given to doctrim alone
TrimChars == {" ", "\t", "\n", "\r", "a"}

L_blank == <<>>
L_prompt == <<">", ">", ">", " ", "x">>
L_more == <<".", ".", ".", " ", "y">>
L_more_bare == <<".", ".", ".">>
L_more_indented == <<" ", " ", ".", ".", ".", " ", "y">>
L_bare == <<">", ">", ">">>
L_indented == <<" ", " ", ">", ">", ">", " ", "x">>
L_shell == <<"$", " ", "l", "s">>
L_file == <<"f", "i", "l", "e", ".", "t", "x", "t">>
L_head1 == <<"#", " ", "A">>
L_head3 == <<"#", "#", "#", " ", "B", "?">>

\* Lines of the docstrings given to doc2md
DocLines == {L_blank, L_prompt, L_indented, L_shell, L_file, L_head1, L_head3}

\* "Title line\n\n>>> 1 + 1\n2\n"
DocDoctest ==
    <<"T", "i", "t", "l", "e", " ", "l", "i", "n", "e", "\n", "\n">>
    \o <<">", ">", ">", " ", "1", " ", "+", " ", "1", "\n", "2", "\n">>

\* "$ ls\nfile.txt\n"
DocShell == <<"$", " ", "l", "s", "\n", "f", "i", "l", "e", ".", "t", "x", "t", "\n">>

demo == <<"d", "e", "m", "o">>

Titles == {demo, <<"T">>}

Docstrings ==
    {None, DocDoctest, DocShell} \cup {join(ls) : ls \in SeqsUpTo(DocLines, MaxLines)}

H_one == <<"#", " ", "A">>
H_works == <<"#", "#", " ", "H", "o", "w", " ", "i", "t", " ", "W", "o", "r", "k", "s", "?">>
H_three == <<"#", "#", "#", " ", "b">>
H_nospace == <<"#", "#", "#", "F", "o", "o">>
H_text == <<"t", "e", "x", "t">>
H_indented == <<" ", "#", " ", "x">>
H_empty == <<"#", " ">>
H_mark == <<"#">>

\* Lines given to find_sections and make_toc alone
\* Lines of the blocks given to doc_code_block alone: a block starts at a
\* prompt and holds no empty line.
BlockLines == {L_prompt, L_more, L_bare, L_more_bare, L_indented,
               L_more_indented, L_file, L_shell}
BlockStarts == {L_prompt, L_indented, L_shell}

TocLines == {H_one, H_works, H_three, H_nospace, H_text, H_indented, H_empty,
             H_mark}

(***************************************************************************)
(* doc2md, statement by statement                                          *)
(***************************************************************************)
Init ==
    /\ pc = "call"
    /\ docstring \in Docstrings
    /\ title \in Titles
    /\ text = <<>>
    /\ again = <<>>
    /\ lines = <<>>
    /\ sections = <<>>
    /\ level = 0
    /\ toc = <<>>
    /\ md = <<>>
    /\ idx = 0
    /\ is_code = FALSE
    /\ code = <<>>
    /\ language = <<>>
    /\ bound = {}
    /\ raised = "none"
    /\ result = <<>>

\* An exception leaves doc2md.
Raise(e) ==
    /\ pc' = "raised"
    /\ raised' = e
    /\ UNCHANGED <<docstring, title, text, again, lines, sections, level, toc,
                   md, idx, is_code, code, language, bound, result>>

\* text = doctrim(docstr); lines = text.split('\n')
Normalize ==
    /\ pc = "call"
    /\ text' = doctrim(docstring)
    /\ lines' = split(doctrim(docstring))
    /\ pc' = "normalized"
    /\ UNCHANGED <<docstring, title, again, sections, level, toc, md, idx,
                   is_code, code, language, bound, raised, result>>

\* sections = find_sections(lines); level = min depth, or 2
Scan ==
    /\ pc = "normalized"
    /\ sections' = find_sections(lines)
    /\ level' = IF sections' /= <<>> THEN min_depth(sections') ELSE 2
    /\ pc' = "scanned"
    /\ UNCHANGED <<docstring, title, text, again, lines, toc, md, idx,
                   is_code, code, language, bound, raised, result>>

\* A slip of title_heading: one mark per level.
title_heading_full(lvl, ttl) == Rep("#", lvl) \o <<" ">> \o ttl

\* "#"*max(level-1, 1) + " " + title
title_heading(lvl, ttl) == Rep("#", Max(lvl - 1, 1)) \o <<" ">> \o ttl

\* md = [heading, "", lines.pop(0), ""]; md += make_toc(sections)
Heading ==
    /\ pc = "scanned"
    /\ IF lines = <<>>
       THEN Raise("IndexError")
       ELSE /\ md' = <<title_heading(level, title), <<>>, lines[1], <<>>>>
                        \o make_toc(sections)
            /\ lines' = Tail(lines)
            /\ is_code' = FALSE
            /\ idx' = 1
            /\ pc' = "walk"
            /\ UNCHANGED <<docstring, title, text, again, sections, level, toc,
                           code, language, bound, raised, result>>

\* if is_code: if line: code.append(line)
CodeAppend ==
    /\ pc = "walk" /\ idx <= Len(lines)
    /\ is_code /\ lines[idx] /= <<>>
    /\ IF "code" \notin bound
       THEN Raise("UnboundLocalError")
       ELSE /\ code' = Append(code, lines[idx])
            /\ idx' = idx + 1
            /\ UNCHANGED <<pc, docstring, title, text, again, lines, sections,
                           level, toc, md, is_code, language, bound, raised,
                           result>>

\* A slip of CodeClose: the empty line that ends the block is not emitted.
CodeCloseDropsLine ==
    /\ pc = "walk" /\ idx <= Len(lines)
    /\ is_code /\ lines[idx] = <<>>
    /\ is_code' = FALSE
    /\ md' = md \o doc_code_block(code, language)
    /\ idx' = idx + 1
    /\ UNCHANGED <<pc, docstring, title, text, again, lines, sections, level,
                   toc, code, language, bound, raised, result>>

\* if is_code: else: is_code = False; md += doc_code_block(code, language);
\* md += [line]
CodeClose ==
    /\ pc = "walk" /\ idx <= Len(lines)
    /\ is_code /\ lines[idx] = <<>>
    /\ IF {"code", "language"} \subseteq bound
       THEN /\ is_code' = FALSE
            /\ md' = md \o doc_code_block(code, language) \o <<lines[idx]>>
            /\ idx' = idx + 1
            /\ UNCHANGED <<pc, docstring, title, text, again, lines, sections,
                           level, toc, code, language, bound, raised, result>>
       ELSE Raise("UnboundLocalError")

\* elif trimmed.startswith('>>> ')
PythonStart ==
    /\ pc = "walk" /\ idx <= Len(lines)
    /\ ~is_code
    /\ startswith(lstrip(lines[idx]), py_prompt)
    /\ is_code' = TRUE
    /\ language' = python
    /\ code' = <<lines[idx]>>
    /\ bound' = bound \cup {"code", "language"}
    /\ idx' = idx + 1
    /\ UNCHANGED <<pc, docstring, title, text, again, lines, sections, level,
                   toc, md, raised, result>>

\* elif trimmed.startswith('$ ')
BashStart ==
    /\ pc = "walk" /\ idx <= Len(lines)
    /\ ~is_code
    /\ ~startswith(lstrip(lines[idx]), py_prompt)
    /\ startswith(lstrip(lines[idx]), sh_prompt)
    /\ is_code' = TRUE
    /\ language' = bash
    /\ code' = <<lines[idx]>>
    /\ bound' = bound \cup {"code", "language"}
    /\ idx' = idx + 1
    /\ UNCHANGED <<pc, docstring, title, text, again, lines, sections, level,
                   toc, md, raised, result>>

\* else: md += [line]
Passthrough ==
    /\ pc = "walk" /\ idx <= Len(lines)
    /\ ~is_code
    /\ ~startswith(lstrip(lines[idx]), py_prompt)
    /\ ~startswith(lstrip(lines[idx]), sh_prompt)
    /\ md' = Append(md, lines[idx])
    /\ idx' = idx + 1
    /\ UNCHANGED <<pc, docstring, title, text, again, lines, sections, level,
                   toc, is_code, code, language, bound, raised, result>>

\* if is_code: md += doc_code_block(code, language); return "\n".join(md)
Return ==
    /\ pc = "walk" /\ idx > Len(lines)
    /\ IF is_code /\ ~({"code", "language"} \subseteq bound)
       THEN Raise("UnboundLocalError")
       ELSE /\ md' = IF is_code THEN md \o doc_code_block(code, language)
                     ELSE md
            /\ result' = join(md')
            /\ pc' = "done"
            /\ UNCHANGED <<docstring, title, text, again, lines, sections,
                           level, toc, idx, is_code, code, language, bound,
                           raised>>

Next ==
    \/ Normalize
    \/ Scan
    \/ Heading
    \/ CodeAppend
    \/ CodeClose
    \/ PythonStart
    \/ BashStart
    \/ Passthrough
    \/ Return

Spec == Init /\ [][Next]_vars

(***************************************************************************)
(* doctrim alone, applied once and once more to its own result             *)
(***************************************************************************)
InitTrim ==
    /\ pc = "trim"
    /\ docstring \in {None} \cup SeqsUpTo(TrimChars, MaxLen)
    /\ title = <<>>
    /\ text = <<>>
    /\ again = <<>>
    /\ lines = <<>>
    /\ sections = <<>>
    /\ level = 0
    /\ toc = <<>>
    /\ md = <<>>
    /\ idx = 0
    /\ is_code = FALSE
    /\ code = <<>>
    /\ language = <<>>
    /\ bound = {}
    /\ raised = "none"
    /\ result = <<>>

Trim ==
    /\ pc = "trim"
    /\ text' = doctrim(docstring)
    /\ pc' = "trimmed"
    /\ UNCHANGED <<docstring, title, again, lines, sections, level, toc, md,
                   idx, is_code, code, language, bound, raised, result>>

TrimAgain ==
    /\ pc = "trimmed"
    /\ again' = doctrim(text)
    /\ pc' = "retrimmed"
    /\ UNCHANGED <<docstring, title, text, lines, sections, level, toc, md,
                   idx, is_code, code, language, bound, raised, result>>

NextTrim ==
    \/ Trim
    \/ TrimAgain

SpecTrim == InitTrim /\ [][NextTrim]_vars

(***************************************************************************)
(* find_sections and make_toc alone                                        *)
(***************************************************************************)
InitToc ==
    /\ pc = "lines"
    /\ lines \in SeqsUpTo(TocLines, MaxTocLines)
    /\ docstring = <<>>
    /\ title = <<>>
    /\ text = <<>>
    /\ again = <<>>
    /\ sections = <<>>
    /\ level = 0
    /\ toc = <<>>
    /\ md = <<>>
    /\ idx = 0
    /\ is_code = FALSE
    /\ code = <<>>
    /\ language = <<>>
    /\ bound = {}
    /\ raised = "none"
    /\ result = <<>>

FindSections ==
    /\ pc = "lines"
    /\ sections' = find_sections(lines)
    /\ pc' = "sections"
    /\ UNCHANGED <<docstring, title, text, again, lines, level, toc, md, idx,
                   is_code, code, language, bound, raised, result>>

MakeToc ==
    /\ pc = "sections"
    /\ toc' = make_toc(sections)
    /\ pc' = "toc"
    /\ UNCHANGED <<docstring, title, text, again, lines, sections, level, md,
                   idx, is_code, code, language, bound, raised, result>>

NextToc ==
    \/ FindSections
    \/ MakeToc

SpecToc == InitToc /\ [][NextToc]_vars

(***************************************************************************)
(* doc_code_block alone                                                    *)
(***************************************************************************)
InitBlock ==
    /\ pc = "block"
    /\ code \in {<<f>> \o r : f \in BlockStarts, r \in SeqsUpTo(BlockLines, MaxBlock)}
    /\ language = IF startswith(lstrip(code[1]), py_prompt) THEN python ELSE bash
    /\ bound = {"code", "language"}
    /\ is_code = TRUE
    /\ docstring = <<>>
    /\ title = <<>>
    /\ text = <<>>
    /\ again = <<>>
    /\ lines = <<>>
    /\ sections = <<>>
    /\ level = 0
    /\ toc = <<>>
    /\ md = <<>>
    /\ idx = 0
    /\ raised = "none"
    /\ result = <<>>

\* md += doc_code_block(code, language)
FormatBlock ==
    /\ pc = "block"
    /\ md' = md \o doc_code_block(code, language)
    /\ pc' = "formatted"
    /\ UNCHANGED <<docstring, title, text, again, lines, sections, level, toc,
                   idx, is_code, code, language, bound, raised, result>>

NextBlock ==
    \/ FormatBlock

SpecBlock == InitBlock /\ [][NextBlock]_vars

(***************************************************************************)
(* Properties of doctrim (SpecTrim)                                        *)
(***************************************************************************)
\* The line holds no character other than whitespace.
IsBlank(line) == \A i \in 1..Len(line) : line[i] \in Whitespace

\* The lines doctrim reads from its argument.
InputLines ==
    IF docstring = None THEN <<>> ELSE splitlines(expandtabs(docstring))

\* The number of whitespace characters before the first other character.
Indentation(line) ==
    Cardinality({i \in 1..Len(line) : \A j \in 1..i : line[j] \in Whitespace})

NonBlank(ls) == {i \in 1..Len(ls) : ~IsBlank(ls[i])}
FirstNonBlank(ls) == CHOOSE i \in NonBlank(ls) : \A j \in NonBlank(ls) : i <= j
LastNonBlank(ls) == CHOOSE i \in NonBlank(ls) : \A j \in NonBlank(ls) : i >= j

\* The first non-blank line of the input is line 0; or no line after it is
\* non-blank; or the least indentation of the non-blank lines after it is
\* its own indentation.
FirstLineLeads ==
    LET ls == InputLines
    IN  \/ NonBlank(ls) = {}
        \/ FirstNonBlank(ls) = 1
        \/ LET first == FirstNonBlank(ls)
               later == {j \in NonBlank(ls) : j > first}
           IN  \/ later = {}
               \/ /\ \A j \in later : Indentation(ls[first]) <= Indentation(ls[j])
                  /\ \E j \in later : Indentation(ls[first]) = Indentation(ls[j])

\* C1 as stated: doctrim is idempotent, doctrim(doctrim(s)) = doctrim(s) for
\* every text s.
TrimIdempotent == pc = "retrimmed" => again = text

\* C1 as amended: doctrim(doctrim(s)) = doctrim(s) for every text s whose
\* first non-blank line is line 0, or has no non-blank line after it, or is
\* indented exactly as deep as the least indented non-blank line after it.
TrimIdempotentWhenFirstLineLeads ==
    (pc = "retrimmed" /\ FirstLineLeads) => again = text

\* C1 witness: a text of several indented lines has been trimmed twice, and
\* the first trim changed it.
TrimIdempotentWitness ==
    /\ pc = "retrimmed"
    /\ FirstLineLeads
    /\ Len(InputLines) >= 3
    /\ IsBlank(InputLines[1])
    /\ "\n" \in {text[i] : i \in 1..Len(text)}
    /\ text /= docstring
    /\ again = text

\* C4: doctrim returns a text, never None; the empty text for a None, empty
\* or all-blank argument; otherwise a text whose first and last lines are
\* not blank and whose lines are, one for one, the input lines from the first
\* non-blank one to the last non-blank one, blank where those are blank.
TrimShape ==
    pc \in {"trimmed", "retrimmed"} =>
        LET ls == InputLines
            out == split(text)
        IN  /\ text /= None
            /\ NonBlank(ls) = {} => text = <<>>
            /\ NonBlank(ls) /= {} =>
                   LET first == FirstNonBlank(ls)
                       last == LastNonBlank(ls)
                   IN  /\ ~IsBlank(out[1])
                       /\ ~IsBlank(out[Len(out)])
                       /\ Len(out) = last - first + 1
                       /\ \A k \in 1..Len(out) :
                              IsBlank(out[k]) <=> IsBlank(ls[first + k - 1])

\* C4 witness: a text with a blank line between two non-blank lines and
\* trailing whitespace has been trimmed, the blank line kept.
TrimShapeWitness ==
    /\ pc = "trimmed"
    /\ text = <<"a", "\n", "\n", "a">>
    /\ text /= docstring

(***************************************************************************)
(* Properties of doc2md (Spec)                                             *)
(***************************************************************************)
\* The lines of the normalized docstring, line 0 included.
AllLines == split(text)

\* The line is d marks '#' and a space, then anything.
IsHeadingOfDepth(line, d) ==
    /\ d >= 1
    /\ Len(line) > d
    /\ \A j \in 1..d : line[j] = "#"
    /\ line[d + 1] = " "

HeadingDepths(ls) ==
    {d \in 1..8 : \E i \in 1..Len(ls) : IsHeadingOfDepth(ls[i], d)}

\* The level of the title heading: the least depth of a heading, or 2.
TitleLevel(ls) ==
    IF HeadingDepths(ls) = {} THEN 2
    ELSE CHOOSE d \in HeadingDepths(ls) : \A e \in HeadingDepths(ls) : d <= e

\* The lines from..to of md are exactly the lines of blk.
HasRun(from, blk) ==
    /\ from >= 1
    /\ from + Len(blk) - 1 <= Len(md)
    /\ \A i \in 1..Len(blk) : md[from + i - 1] = blk[i]

S_hash_demo == <<"#", " ", "d", "e", "m", "o">>
S_title_line == <<"T", "i", "t", "l", "e", " ", "l", "i", "n", "e">>
S_doctest == <<">", ">", ">", " ", "1", " ", "+", " ", "1">>
S_doctest_stripped == <<"1", " ", "+", " ", "1">>
S_two == <<"2">>

\* C2: doc2md raises for no docstring and no title: no statement raises, the
\* walk stays inside the lines, the value returned is the joined document,
\* and for a None or empty docstring it is the title heading followed by an
\* empty first line: "# title", "", "", "".
NeverRaises ==
    /\ raised = "none"
    /\ pc /= "raised"
    /\ pc \in {"call", "normalized", "scanned", "walk", "done"}
    /\ pc = "walk" => idx \in 1..(Len(lines) + 1)
    /\ pc = "done" => (idx = Len(lines) + 1 /\ result = join(md))
    /\ (pc = "done" /\ docstring \in {None, <<>>}) =>
           /\ md = <<<<"#", " ">> \o title, <<>>, <<>>, <<>>>>
           /\ result = <<"#", " ">> \o title \o <<"\n", "\n", "\n">>

\* C2 witness: doc2md has returned for the None docstring.
NeverRaisesWitness ==
    /\ pc = "done"
    /\ docstring = None
    /\ md = <<<<"#", " ">> \o title, <<>>, <<>>, <<>>>>

\* C3 as stated: for "Title line\n\n>>> 1 + 1\n2\n" and the title "demo" the
\* document starts with "# demo" and holds a python fence around exactly
\* "1 + 1", followed by the line "2" after the closing fence.
DoctestExampleStripped ==
    (pc = "done" /\ docstring = DocDoctest /\ title = demo) =>
        /\ md[1] = S_hash_demo
        /\ \E j \in 1..Len(md) :
               HasRun(j, <<fence \o python, S_doctest_stripped, fence, S_two>>)

\* C3 as amended: for that docstring and title the document is "# demo", "",
\* "Title line", "", "", then a python fence around the two lines ">>> 1 + 1"
\* and "2", the prompt kept because "2" is no prompt line; the closing fence
\* is the last line.
DoctestExampleKept ==
    (pc = "done" /\ docstring = DocDoctest /\ title = demo) =>
        md = <<S_hash_demo, <<>>, S_title_line, <<>>, <<>>,
               fence \o python, S_doctest, S_two, fence>>

\* C3 witness: doc2md has returned for the example.
DoctestExampleWitness ==
    /\ pc = "done"
    /\ docstring = DocDoctest
    /\ title = demo
    /\ code = <<S_doctest, S_two>>

\* Line k of the body starts the run "$ ls", "file.txt".
ShellRunAt(ls, k) ==
    /\ k >= 1
    /\ k + 1 <= Len(ls)
    /\ ls[k] = L_shell
    /\ ls[k + 1] = L_file

\* The first empty line of ls after line k, or the end of ls.
RunEnd(ls, k) ==
    LET empties == {e \in (k + 1)..Len(ls) : ls[e] = <<>>}
    IN  IF empties = {} THEN Len(ls) + 1
        ELSE CHOOSE e \in empties : \A f \in empties : e <= f

DocumentHead ==
    ((pc = "walk" /\ idx = 1) \/ pc = "done") =>
        LET all == AllLines
            lvl == TitleLevel(all)
            contents == make_toc(find_sections(all))
            n == Cardinality({i \in 1..Len(all) :
                                 \E d \in 1..8 : IsHeadingOfDepth(all[i], d)})
            head == <<Rep("#", Max(lvl - 1, 1)) \o <<" ">> \o title,
                      <<>>, all[1], <<>>>> \o contents
        IN  /\ Len(contents) = n
            /\ Len(md) >= 4 + n
            /\ SubSeq(md, 1, 4 + n) = head
            /\ (pc = "walk" /\ idx = 1) => (Len(md) = 4 + n /\ ~is_code)
            /\ pc = "done" => startswith(result, join(head))

\* C8 witness: the heading has been emitted for a docstring whose line 0 is a
\* prompt line and whose only heading has depth 3.
DocumentHeadWitness ==
    /\ pc = "walk"
    /\ idx = 1
    /\ md[1] = <<"#", "#", " ">> \o title
    /\ md[3] = L_prompt
    /\ Len(md) = 5

\* The number of lines of ls that are in the set S
Count(ls, S) == Cardinality({i \in 1..Len(ls) : ls[i] \in S})

\* C9: in the walk a block opened at a prompt line takes every following
\* line, whatever it holds, up to the first empty line; that line is emitted
\* right after the closing fence; a block open at the end of the input is
\* closed there with nothing after the closing fence; each block is emitted
\* once, with one opening and one closing fence.
BlockWalk ==
    [][pc = "walk" =>
        LET OpenFences(m) == Count(m, {fence \o python, fence \o bash})
            CloseFences(m) == Count(m, {fence})
            line == lines[idx]
            trimmed == lstrip(line)
        IN  /\ OpenFences(md') = CloseFences(md')
            /\ (idx <= Len(lines) /\ ~is_code) =>
                   IF startswith(trimmed, py_prompt) \/ startswith(trimmed, sh_prompt)
                   THEN /\ is_code'
                        /\ code' = <<line>>
                        /\ language' = IF startswith(trimmed, py_prompt)
                                       THEN python ELSE bash
                        /\ md' = md
                   ELSE ~is_code' /\ md' = Append(md, line)
            /\ (idx <= Len(lines) /\ is_code /\ line /= <<>>) =>
                   /\ is_code'
                   /\ code' = Append(code, line)
                   /\ language' = language
                   /\ md' = md
            /\ (idx <= Len(lines) /\ is_code /\ line = <<>>) =>
                   /\ ~is_code'
                   /\ Len(md') = Len(md) + Len(code) + 3
                   /\ SubSeq(md', 1, Len(md)) = md
                   /\ md'[Len(md) + 1] = fence \o language
                   /\ md'[Len(md') - 1] = fence
                   /\ md'[Len(md')] = <<>>
                   /\ CloseFences(md') = CloseFences(md) + 1
            /\ (idx > Len(lines) /\ is_code) =>
                   /\ pc' = "done"
                   /\ Len(md') = Len(md) + Len(code) + 2
                   /\ SubSeq(md', 1, Len(md)) = md
                   /\ md'[Len(md) + 1] = fence \o language
                   /\ md'[Len(md')] = fence
                   /\ CloseFences(md') = CloseFences(md) + 1
            /\ (idx > Len(lines) /\ ~is_code) =>
                   pc' = "done" /\ md' = md]_vars

\* C9 witness: a block has been closed at an empty line inside the input: the
\* document ends with the closing fence and the empty line.
BlockWalkWitness ==
    /\ pc = "walk"
    /\ ~is_code
    /\ idx >= 3
    /\ lines[idx - 1] = <<>>
    /\ lines[idx - 2] /= <<>>
    /\ "code" \in bound
    /\ md[Len(md)] = <<>>
    /\ md[Len(md) - 1] = fence
    /\ md[Len(md) - Len(code) - 2] = fence \o language

(***************************************************************************)
(* Properties of doc_code_block (SpecBlock)                                *)
(***************************************************************************)
\* The block with its common indentation removed.
Unindented(blk) ==
    LET common == CHOOSE n \in {Indentation(blk[i]) : i \in 1..Len(blk)} :
                      \A i \in 1..Len(blk) : n <= Indentation(blk[i])
    IN  [i \in 1..Len(blk) |-> From(blk[i], common)]

\* The line starts with ">>> " or "... ", or is exactly ">>>" or "...".
IsTranscriptLine(line) ==
    \/ Upto(line, 4) \in {py_prompt, py_more}
    \/ line \in {py_prompt_bare, py_more_bare}

\* The lines between the opening and the closing fence
Fenced == SubSeq(md, 2, Len(md) - 1)

FenceOverheadThree ==
    pc = "formatted" => Len(md) = Len(code) + 3

\* C10 as amended: the formatted block is the opening fence with the language
\* tag, the collected lines in order (each one whole, or cut at its start for
\* a python block), the closing fence: two lines more than the collected
\* lines.
FenceOverheadTwo ==
    pc = "formatted" =>
        /\ Len(md) = Len(code) + 2
        /\ md[1] = fence \o language
        /\ md[Len(md)] = fence
        /\ \A i \in 1..Len(code) :
               \E n \in 0..Len(code[i]) : Fenced[i] = From(code[i], n)
        /\ language = bash => Fenced = code

\* C10 witness: a block of three lines has been formatted into five lines.
FenceOverheadWitness ==
    /\ pc = "formatted"
    /\ Len(code) = 3
    /\ Len(md) = 5
    /\ language = bash

(***************************************************************************)
(* Properties of find_sections and make_toc (SpecToc)                      *)
(***************************************************************************)
S_works_entry == <<"-", " ", "[", "H", "o", "w", " ", "i", "t", " ", "W", "o", "r", "k", "s", "?", "]", "(", "#", "h", "o", "w", "-", "i", "t", "-", "w", "o", "r", "k", "s", ")">>

\* The indices of the heading lines, in order
HeadingLines ==
    {i \in 1..Len(lines) : \E d \in 1..Len(lines[i]) : IsHeadingOfDepth(lines[i], d)}

\* The k-th heading line
HeadingAt(k) ==
    CHOOSE i \in HeadingLines : Cardinality({j \in HeadingLines : j <= i}) = k

DepthOf(line) == CHOOSE d \in 1..Len(line) : IsHeadingOfDepth(line, d)

\* The title lowercased, each space a hyphen, each '?' removed
AnchorOf(ttl) ==
    LET LowerOf(c) ==
            IF \E k \in 1..26 : UpperCase[k] = c
            THEN LowerCase[CHOOSE k \in 1..26 : UpperCase[k] = c]
            ELSE c
        mapped == [i \in 1..Len(ttl) |-> IF ttl[i] = " " THEN "-" ELSE LowerOf(ttl[i])]
        IsKept(c) == c /= "?"
    IN  SelectSeq(mapped, IsKept)

\* C7: the table of contents has one entry per heading line (marks '#' at
\* column 0 followed by a space), in order; the entry of a heading of depth d
\* is 4*(d - least depth) spaces, then "- [title](#anchor)", the anchor the
\* title lowercased with hyphens for spaces and no '?'; "## How it Works?"
\* gives the anchor "how-it-works"; "###Foo" gives no entry.
TocEntries ==
    pc = "toc" =>
        LET n == Cardinality(HeadingLines)
            least == CHOOSE d \in {DepthOf(lines[i]) : i \in HeadingLines} :
                         \A i \in HeadingLines : d <= DepthOf(lines[i])
        IN  /\ Len(toc) = n
            /\ \A k \in 1..n :
                   LET line == lines[HeadingAt(k)]
                       d == DepthOf(line)
                       ttl == From(line, d + 1)
                   IN  /\ toc[k] = Rep(" ", 4 * (d - least)) \o <<"-", " ", "[">>
                                   \o ttl \o <<"]", "(", "#">> \o AnchorOf(ttl)
                                   \o <<")">>
                       /\ line = H_works => lstrip(toc[k]) = S_works_entry
            /\ \A i \in 1..Len(lines) : lines[i] = H_nospace => i \notin HeadingLines

\* C7 witness: a table of contents has been made for lines with headings of
\* depths 1 and 2 and a line "###Foo": two entries, the second indented.
TocEntriesWitness ==
    /\ pc = "toc"
    /\ lines = <<H_one, H_nospace, H_works>>
    /\ Len(toc) = 2
    /\ toc[2] = <<" ", " ", " ", " ">> \o S_works_entry

====
